---- MODULE Spec2Model ----
(***************************************************************************)
(* A model of src/dbt.py: DbtProjectGenerator (create_project_structure,   *)
(* create_model_from_sql) and the driver generate_dbt_project.             *)
(*                                                                         *)
(* The filesystem is a set of directories (dirs) and a map from file paths *)
(* to contents (files).  A path is a sequence of components.  Text is kept *)
(* as Python keeps it: a name or an SQL text is a sequence of one          *)
(* character strings while the code works on its characters (re.sub,       *)
(* str.strip, str.replace) and a string once it is only concatenated.  A   *)
(* written model file is the sequence of its lines (the stripped SQL body  *)
(* is the last one).  An optional Python value is <<>> (None) or <<v>>.    *)
(***************************************************************************)
EXTENDS Integers, Sequences, FiniteSets, TLC

VARIABLES
    dirs,       \* directories that exist
    files,      \* file path -> content
    cfgs,       \* heap of configuration dicts: id -> ordered mapping
    models,     \* models_config['models']: the list of model entries
    hashOrder,  \* this process's iteration order of a set of layer names
    layersArg,  \* the layers argument of direct create_project_structure calls
    pc,         \* where the running call stands
    idx,        \* 1-based position of the driver's loop in models
    err,        \* "" or the exception that ended the call
    log,        \* what the current run has done so far, in order
    call,       \* <<>> or <<arguments of the last create_model_from_sql call>>
    run,        \* number of the current call of the operation under study
    prev        \* <<>> or <<filesystem at the end of the previous call>>

vars == <<dirs, files, cfgs, models, hashOrder, layersArg, pc, idx, err, log, call, run, prev>>

(***************************************************************************)
(* Bounds of the model.                                                    *)
(***************************************************************************)
MaxModels == 2      \* longest models list of a ProjectConfig
MaxNameLen == 2     \* longest model name passed to create_model_from_sql
MaxCfgLen == 2      \* most keys in a configuration mapping passed directly
MaxRuns == 2        \* calls in succession of the operation under study

None == <<>>
Some(x) == <<x>>

(***************************************************************************)
(* Characters and strings.                                                 *)
(***************************************************************************)
Lower == {"a","b","c","d","e","f","g","h","i","j","k","l","m",
          "n","o","p","q","r","s","t","u","v","w","x","y","z"}
Upper == {"A","B","C","D","E","F","G","H","I","J","K","L","M",
          "N","O","P","Q","R","S","T","U","V","W","X","Y","Z"}
Digits == {"0","1","2","3","4","5","6","7","8","9"}

\* The characters the pattern [^a-zA-Z0-9_] does not match.
NameChars == Lower \cup Upper \cup Digits \cup {"_"}

\* Characters str.strip() removes at both ends.
Whitespace == {" ", "\t", "\n", "\r"}

RECURSIVE Join(_)
\* The string made of the characters cs.
Join(cs) == IF cs = <<>> THEN "" ELSE Head(cs) \o Join(Tail(cs))

RECURSIVE JoinWith(_, _)
\* sep.join(parts) for a sequence of strings.
JoinWith(sep, parts) ==
    IF parts = <<>> THEN ""
    ELSE IF Len(parts) = 1 THEN parts[1]
    ELSE parts[1] \o sep \o JoinWith(sep, Tail(parts))

\* project_name.replace(' ', '_')
CleanProjectName(cs) == [i \in 1..Len(cs) |-> IF cs[i] = " " THEN "_" ELSE cs[i]]

\* Variant of CleanModelName that replaces spaces only, as the project name
\* is cleaned: C6 must tell it from the code.
CleanModelName_SpacesOnly(cs) == [i \in 1..Len(cs) |-> IF cs[i] = " " THEN "_" ELSE cs[i]]

\* re.sub(r'[^a-zA-Z0-9_]', '_', model_name)
CleanModelName(cs) == [i \in 1..Len(cs) |-> IF cs[i] \in NameChars THEN cs[i] ELSE "_"]

RECURSIVE LStrip(_)
LStrip(cs) == IF cs # <<>> /\ Head(cs) \in Whitespace THEN LStrip(Tail(cs)) ELSE cs

RECURSIVE RStrip(_)
RStrip(cs) ==
    IF cs # <<>> /\ cs[Len(cs)] \in Whitespace
    THEN RStrip(SubSeq(cs, 1, Len(cs) - 1))
    ELSE cs

\* sql_content.strip()
Strip(cs) == RStrip(LStrip(cs))

(***************************************************************************)
(* Configuration values and their rendering (create_model_from_sql).       *)
(* A value is a string, a number or a list of strings and numbers; a       *)
(* mapping is a sequence of [k, v] entries with distinct keys, in the      *)
(* dict's iteration (insertion) order.                                     *)
(***************************************************************************)
StrVal(s) == [t |-> "str", s |-> s]
IntVal(n) == [t |-> "int", n |-> n]
ListVal(xs) == [t |-> "list", xs |-> xs]

\* repr() of a list element.
PyRepr(v) == IF v.t = "str" THEN "'" \o v.s \o "'" ELSE ToString(v.n)

\* The f-string {value} of one configuration value.
FormatValue(v) ==
    IF v.t = "str" THEN "'" \o v.s \o "'"
    ELSE IF v.t = "list"
         THEN "[" \o JoinWith(", ", [i \in 1..Len(v.xs) |-> PyRepr(v.xs[i])]) \o "]"
         ELSE ToString(v.n)

\* One element of config_params.
ConfigParam(e) == e.k \o "=" \o FormatValue(e.v)

Keys(m) == {m[i].k : i \in 1..Len(m)}

\* Variants of EnsureSchema: never defaulting (C4), putting the defaulted
\* key first (C5), assigning config['schema'] = layer unconditionally (C10).
EnsureSchema_Never(m, layer) == m
EnsureSchema_First(m, layer) ==
    IF "schema" \in Keys(m) THEN m ELSE <<[k |-> "schema", v |-> StrVal(layer)]>> \o m
EnsureSchema_Always(m, layer) ==
    IF "schema" \in Keys(m)
    THEN [i \in DOMAIN m |-> IF m[i].k = "schema" THEN [k |-> "schema", v |-> StrVal(layer)] ELSE m[i]]
    ELSE Append(m, [k |-> "schema", v |-> StrVal(layer)])

\* 'schema' not in config -> config['schema'] = layer: a new key goes last.
EnsureSchema(m, layer) ==
    IF "schema" \in Keys(m) THEN m ELSE Append(m, [k |-> "schema", v |-> StrVal(layer)])

\* The lines of '{{ config(' , '    ' + ',\n    '.join(config_params) , ') }}'
\* once joined by blank lines: every parameter but the last ends in a comma.
ConfigBlock(m) ==
    <<"{{ config(", "">>
    \o [i \in 1..Len(m) |-> "    " \o ConfigParam(m[i]) \o (IF i < Len(m) THEN "," ELSE "")]
    \o <<"", ") }}", "">>

\* Truthiness of the config argument: None and the empty dict are falsy.
Truthy(cfgRef, heap) == cfgRef # None /\ heap[cfgRef[1]] # <<>>

(***************************************************************************)
(* The filesystem.                                                         *)
(***************************************************************************)
Prefixes(path) == {SubSeq(path, 1, n) : n \in 1..Len(path)}
Parent(path) == SubSeq(path, 1, Len(path) - 1)

Failure(ds, fl, e) == [ok |-> FALSE, err |-> e, dirs |-> ds, files |-> fl]
Success(ds, fl) == [ok |-> TRUE, err |-> "", dirs |-> ds, files |-> fl]

\* Variant of Makedirs without exist_ok: an existing directory is an error
\* (C7).
Makedirs_NoExistOk(ds, fl, path, exist_ok) ==
    IF \E q \in Prefixes(path) \ {path} : q \in DOMAIN fl
    THEN Failure(ds, fl, "NotADirectoryError")
    ELSE IF path \in DOMAIN fl \/ path \in ds
         THEN Failure(ds, fl, "FileExistsError")
         ELSE Success(ds \cup Prefixes(path), fl)

\* os.makedirs(path, exist_ok=...) / Path.mkdir(parents=True, exist_ok=...):
\* missing parents are made; a regular file in the way is an error whatever
\* exist_ok is, an existing directory only without exist_ok.
Makedirs(ds, fl, path, exist_ok) ==
    IF \E q \in Prefixes(path) \ {path} : q \in DOMAIN fl
    THEN Failure(ds, fl, "NotADirectoryError")
    ELSE IF path \in DOMAIN fl \/ (path \in ds /\ ~exist_ok)
         THEN Failure(ds, fl, "FileExistsError")
         ELSE Success(ds \cup Prefixes(path), fl)

\* Variant of WriteFile that leaves an existing file as it is (C9).
WriteFile_KeepExisting(ds, fl, path, content) ==
    IF Parent(path) \notin ds
    THEN Failure(ds, fl, "FileNotFoundError")
    ELSE IF path \in ds
         THEN Failure(ds, fl, "IsADirectoryError")
         ELSE Success(ds, [q \in DOMAIN fl \cup {path} |->
                              IF q \in DOMAIN fl THEN fl[q] ELSE content])

\* with open(path, 'w') as f: f.write(content)
WriteFile(ds, fl, path, content) ==
    IF Parent(path) \notin ds
    THEN Failure(ds, fl, "FileNotFoundError")
    ELSE IF path \in ds
         THEN Failure(ds, fl, "IsADirectoryError")
         ELSE Success(ds, [q \in DOMAIN fl \cup {path} |-> IF q = path THEN content ELSE fl[q]])

RECURSIVE MakedirsAll_SkipLast(_, _, _, _)
\* Variant of MakedirsAll whose loop stops one path short (C8).
MakedirsAll_SkipLast(ds, fl, paths, exist_ok) ==
    IF Len(paths) <= 1 THEN Success(ds, fl)
    ELSE LET r == Makedirs(ds, fl, Head(paths), exist_ok)
         IN IF r.ok THEN MakedirsAll_SkipLast(r.dirs, fl, Tail(paths), exist_ok) ELSE r

RECURSIVE MakedirsAll(_, _, _, _)
\* A for loop of makedirs calls over the paths, stopping at the first failure.
MakedirsAll(ds, fl, paths, exist_ok) ==
    IF paths = <<>> THEN Success(ds, fl)
    ELSE LET r == Makedirs(ds, fl, Head(paths), exist_ok)
         IN IF r.ok THEN MakedirsAll(r.dirs, fl, Tail(paths), exist_ok) ELSE r

(***************************************************************************)
(* DbtProjectGenerator.                                                    *)
(***************************************************************************)
\* project_dir, as passed by the caller; the current directory is <<>>.
ProjectDir == <<"my_dbt_project">>

\* project_name, as passed by the caller.
ProjectNameArg == <<"m", "y", " ", "d", "b", "t">>

\* self.project_name
ProjectName == Join(CleanProjectName(ProjectNameArg))

\* Path('/opt/app-root/src/.dbt')
DbtDir == <<"/opt/app-root/src/.dbt">>

base_dirs == <<"macros", "tests", "target", "seeds", "analyses", "snapshots", "configs", "logs">>

requirements_content == <<"dbt-core==1.7.10", "dbt-trino==1.7.1">>

profiles_config ==
    [profile |-> ProjectName, target |-> "dev",
     outputs |-> [dev |-> [type |-> "trino", host |-> "localhost", port |-> 8080,
                           user |-> "admin", password |-> "admin", catalog |-> "hive",
                           schema |-> "default", threads |-> 4]]]

\* The order in which this process iterates over the set of layers.
IterOrder(layers, order) == SelectSeq(order, LAMBDA l : l \in layers)

\* project_config: the per-layer mapping follows the iteration order of layers.
project_config(layerSeq) ==
    [name |-> ProjectName, version |-> "1.0.0", config_version |-> 2, profile |-> ProjectName,
     target_path |-> "target", clean_targets |-> <<"target", "dbt_packages">>,
     model_paths |-> <<"models">>, seed_paths |-> <<"seeds">>, test_paths |-> <<"tests">>,
     analysis_paths |-> <<"analyses">>, macro_paths |-> <<"macros">>,
     snapshot_paths |-> <<"snapshots">>,
     models |-> [i \in 1..Len(layerSeq) |->
                    [layer |-> layerSeq[i], materialized |-> "table", schema |-> layerSeq[i]]]]

RequirementsPath == ProjectDir \o <<"configs", "requirements.txt">>
ProfilesPath == DbtDir \o <<"profiles.yml">>
ManifestPath == ProjectDir \o <<"dbt_project.yml">>
LayerDir(layer) == ProjectDir \o <<"models", layer>>

\* create_project_structure(layers); an exception leaves what was done before it.
create_project_structure(ds, fl, layers, order) ==
    LET layerSeq == IterOrder(layers, order)
        r1 == MakedirsAll(ds, fl, [i \in 1..Len(base_dirs) |-> ProjectDir \o <<base_dirs[i]>>], TRUE)
        r2 == MakedirsAll(r1.dirs, fl, [i \in 1..Len(layerSeq) |-> LayerDir(layerSeq[i])], TRUE)
        r3 == WriteFile(r2.dirs, fl, RequirementsPath, requirements_content)
        r4 == Makedirs(r3.dirs, r3.files, DbtDir, TRUE)
        r5 == WriteFile(r4.dirs, r4.files, ProfilesPath, profiles_config)
        r6 == WriteFile(r5.dirs, r5.files, ManifestPath, project_config(layerSeq))
    IN  IF ~r1.ok THEN r1
        ELSE IF ~r2.ok THEN r2
        ELSE IF ~r3.ok THEN r3
        ELSE IF ~r4.ok THEN r4
        ELSE IF ~r5.ok THEN r5
        ELSE r6

\* model_path
ModelPath(model_name, layer) ==
    LayerDir(layer) \o <<Join(CleanModelName(model_name)) \o ".sql">>

\* The config dict after the "if config:" block of a call.
ConfigAfter(heap, layer, cfgRef) ==
    IF Truthy(cfgRef, heap)
    THEN [heap EXCEPT ![cfgRef[1]] = EnsureSchema(@, layer)]
    ELSE heap

\* '\n\n'.join(model_content), as lines.
ModelContent(heap, sql_content, cfgRef) ==
    (IF Truthy(cfgRef, heap) THEN ConfigBlock(heap[cfgRef[1]]) ELSE <<>>)
    \o <<Join(Strip(sql_content))>>

\* create_model_from_sql(sql_content, model_name, layer, config): the dict is
\* changed before the file is opened, so a failed write leaves the change.
create_model_from_sql(ds, fl, heap, sql_content, model_name, layer, cfgRef) ==
    LET heap2 == ConfigAfter(heap, layer, cfgRef)
        w == WriteFile(ds, fl, ModelPath(model_name, layer),
                       ModelContent(heap2, sql_content, cfgRef))
    IN  [ok |-> w.ok, err |-> w.err, dirs |-> w.dirs, files |-> w.files, cfgs |-> heap2]

(***************************************************************************)
(* Inputs.                                                                 *)
(***************************************************************************)
Layers == {"staging", "mart"}

\* The orders in which a process may iterate over a set of layers.
HashOrders == {o \in [1..Cardinality(Layers) -> Layers] : {o[i] : i \in DOMAIN o} = Layers}

\* The SQL files under sql_base_dir; no other reference exists.
SqlSources == [ref \in {"a.sql"} |-> <<" ", "s", "e", "l", "e", "c", "t", " ", "1", "\n">>]

SqlRefs == {None, Some(""), Some("a.sql"), Some("missing.sql")}

\* The configuration dicts of the ProjectConfig, by identity: two model
\* entries naming the same id share one dict (a YAML alias).
CfgIds == {"empty", "view", "custom"}

InitialHeap ==
    [id \in CfgIds \cup {"arg"} |->
        IF id = "view" THEN <<[k |-> "materialized", v |-> StrVal("view")]>>
        ELSE IF id = "custom"
             THEN <<[k |-> "schema", v |-> StrVal("analytics")],
                    [k |-> "materialized", v |-> StrVal("table")]>>
             ELSE <<>>]

ModelNames == {<<"a", " ", "b">>, <<"a", "-", "b">>, <<"c">>}

\* Model entries: of an entry whose SQL cannot be read the config is never
\* looked at and the name only goes into the error message, so such
\* entries are listed with one name and without a config.
ModelEntries ==
    [name : {<<"c">>}, layer : Layers,
     sql : SqlRefs \ {Some("a.sql")}, config : {None}]
    \cup
    [name : ModelNames, layer : Layers,
     sql : {Some("a.sql")}, config : {None} \cup {Some(id) : id \in CfgIds}]

ProjectConfigs == UNION {[1..n -> ModelEntries] : n \in 0..MaxModels}

\* An empty project root: only the current directory exists.
FreshFs == [dirs |-> {<<>>}, files |-> <<>>]

Snapshot == [dirs |-> dirs, files |-> files]

(***************************************************************************)
(* generate_dbt_project, run on an empty project root and then again on    *)
(* what the finished run left (same ProjectConfig object, same sources).   *)
(***************************************************************************)
Init ==
    /\ dirs = FreshFs.dirs
    /\ files = FreshFs.files
    /\ cfgs = InitialHeap
    /\ models \in ProjectConfigs
    /\ hashOrder \in HashOrders
    /\ layersArg = {}
    /\ pc = "idle"
    /\ idx = 0
    /\ err = ""
    /\ log = <<>>
    /\ call = None
    /\ run = 0
    /\ prev = None

\* Variant of ConfigLayers: a fixed list of layers instead of the models'
\* own (C3).
ConfigLayers_Fixed == Layers

\* layers = {model['layer'] for model in models_config['models']}
ConfigLayers == {models[i].layer : i \in DOMAIN models}

\* Variant of MissingSql testing "sql_file is None" only (C2).
MissingSql_NoneOnly(m) == m.sql = None

\* not sql_file
MissingSql(m) == m.sql = None \/ m.sql = Some("")

LogEntry(op, i, path) == [op |-> op, i |-> i, path |-> path]

\* The generator is built and create_project_structure(layers) is called; a
\* run after a finished one starts from what that run left.
GenerateStart ==
    /\ pc = "idle" \/ (pc = "done" /\ run < MaxRuns)
    /\ LET r == create_project_structure(dirs, files, ConfigLayers, hashOrder)
       IN  /\ dirs' = r.dirs
           /\ files' = r.files
           /\ err' = r.err
           /\ pc' = IF ~r.ok THEN "failed" ELSE IF models = <<>> THEN "done" ELSE "loop"
    /\ prev' = IF pc = "done" THEN Some(Snapshot) ELSE prev
    /\ run' = run + 1
    /\ idx' = 1
    /\ log' = <<LogEntry("structure", 0, <<>>)>>
    /\ call' = None
    /\ UNCHANGED <<cfgs, models, hashOrder, layersArg>>

\* raise ValueError: the entry has no sql reference.
RaiseValueError ==
    /\ pc = "loop"
    /\ MissingSql(models[idx])
    /\ pc' = "failed"
    /\ err' = "ValueError"
    /\ log' = Append(log, LogEntry("check", idx, <<>>))
    /\ UNCHANGED <<dirs, files, cfgs, models, hashOrder, layersArg, idx, call, run, prev>>

\* Variant of RaiseFileNotFound that skips the model and goes on (C1).
RaiseFileNotFound_Skip ==
    /\ pc = "loop"
    /\ ~MissingSql(models[idx])
    /\ models[idx].sql[1] \notin DOMAIN SqlSources
    /\ pc' = IF idx = Len(models) THEN "done" ELSE "loop"
    /\ idx' = idx + 1
    /\ log' = Append(log, LogEntry("check", idx, <<>>))
    /\ UNCHANGED <<dirs, files, cfgs, models, hashOrder, layersArg, err, call, run, prev>>

\* raise FileNotFoundError: sql_path does not exist.
RaiseFileNotFound ==
    /\ pc = "loop"
    /\ ~MissingSql(models[idx])
    /\ models[idx].sql[1] \notin DOMAIN SqlSources
    /\ pc' = "failed"
    /\ err' = "FileNotFoundError"
    /\ log' = Append(log, LogEntry("check", idx, <<>>))
    /\ UNCHANGED <<dirs, files, cfgs, models, hashOrder, layersArg, idx, call, run, prev>>

\* The arguments of a create_model_from_sql call, the config dict as it is
\* on entry, with the path the call writes and whether it returned.
CallRecord(heap, name, layer, cfgRef, sql_content, ok) ==
    [name |-> name, layer |-> layer,
     config |-> IF cfgRef = None THEN None ELSE Some(heap[cfgRef[1]]),
     sql_content |-> sql_content, path |-> ModelPath(name, layer), ok |-> ok]

\* One iteration of the loop that reads the SQL file and writes the model.
GenerateModel ==
    /\ pc = "loop"
    /\ ~MissingSql(models[idx])
    /\ models[idx].sql[1] \in DOMAIN SqlSources
    /\ LET m == models[idx]
           sql_content == SqlSources[m.sql[1]]
           r == create_model_from_sql(dirs, files, cfgs, sql_content, m.name, m.layer, m.config)
       IN  /\ dirs' = r.dirs
           /\ files' = r.files
           /\ cfgs' = r.cfgs
           /\ err' = r.err
           /\ pc' = IF ~r.ok THEN "failed" ELSE IF idx = Len(models) THEN "done" ELSE "loop"
           /\ call' = Some(CallRecord(cfgs, m.name, m.layer, m.config, sql_content, r.ok))
           /\ log' = log \o <<LogEntry("check", idx, <<>>),
                              LogEntry("write", idx, ModelPath(m.name, m.layer))>>
    /\ idx' = idx + 1
    /\ UNCHANGED <<models, hashOrder, layersArg, run, prev>>

Next == GenerateStart \/ RaiseValueError \/ RaiseFileNotFound \/ GenerateModel

Spec == Init /\ [][Next]_vars

(***************************************************************************)
(* create_model_from_sql called directly, once, on a project whose         *)
(* structure was created for Layers, with arguments of every shape.        *)
(***************************************************************************)
Alphabet == {"a", "Z", "7", "_", " ", "/"}

DirectNames == UNION {[1..n -> Alphabet] : n \in 0..MaxNameLen}

\* "adhoc" is a layer create_project_structure was not given.
DirectLayers == Layers \cup {"adhoc"}

DirectKeys == {"schema", "materialized", "tags"}

DirectValues == {StrVal("view"), IntVal(4), ListVal(<<StrVal("x"), IntVal(1)>>)}

DirectMappings ==
    {m \in UNION {[1..n -> [k : DirectKeys, v : DirectValues]] : n \in 0..MaxCfgLen} :
        \A i, j \in DOMAIN m : i # j => m[i].k # m[j].k}

DirectSql == {<<" ", "\n", "s", " ", "1", "\t", "\n">>}

InitModel ==
    /\ hashOrder \in HashOrders
    /\ LET r == create_project_structure(FreshFs.dirs, FreshFs.files, Layers, hashOrder)
       IN  dirs = r.dirs /\ files = r.files
    /\ cfgs = InitialHeap
    /\ models = <<>>
    /\ layersArg = {}
    /\ pc = "call"
    /\ idx = 0
    /\ err = ""
    /\ log = <<>>
    /\ call = None
    /\ run = 0
    /\ prev = None

\* A caller passes None or a dict of its own (held in the heap as "arg").
CallCreateModelFromSql ==
    /\ pc = "call"
    /\ \E name \in DirectNames, layer \in DirectLayers, sql_content \in DirectSql,
          config \in {None} \cup {Some(m) : m \in DirectMappings} :
        LET heap == IF config = None THEN cfgs ELSE [cfgs EXCEPT !["arg"] = config[1]]
            cfgRef == IF config = None THEN None ELSE Some("arg")
            r == create_model_from_sql(dirs, files, heap, sql_content, name, layer, cfgRef)
        IN  /\ dirs' = r.dirs
            /\ files' = r.files
            /\ cfgs' = r.cfgs
            /\ err' = r.err
            /\ pc' = IF r.ok THEN "done" ELSE "failed"
            /\ call' = Some(CallRecord(heap, name, layer, cfgRef, sql_content, r.ok))
    /\ run' = run + 1
    /\ UNCHANGED <<models, hashOrder, layersArg, idx, log, prev>>

NextModel == CallCreateModelFromSql

SpecModel == InitModel /\ [][NextModel]_vars

(***************************************************************************)
(* create_project_structure called directly, in succession, on a project   *)
(* root in any earlier state: some directories there or not, older files   *)
(* there or not.                                                           *)
(***************************************************************************)
KeptModelPath == LayerDir("staging") \o <<"kept.sql">>

PriorDirCandidates ==
    {ProjectDir, ProjectDir \o <<"macros">>, ProjectDir \o <<"configs">>,
     ProjectDir \o <<"models">>, LayerDir("staging"), LayerDir("legacy"), DbtDir}

PriorDirSets == {D \in SUBSET PriorDirCandidates : \A d \in D : Prefixes(d) \subseteq D}

PriorFilePaths == {RequirementsPath, ProfilesPath, ManifestPath, KeptModelPath}

PriorContent(path) ==
    IF path = RequirementsPath THEN <<"dbt-core==1.0.0">>
    ELSE IF path = ProfilesPath THEN [profiles_config EXCEPT !.profile = "earlier"]
    ELSE IF path = ManifestPath THEN project_config(<<"legacy">>)
    ELSE <<"select 0">>

PriorStates ==
    UNION {{[dirs |-> D \cup {<<>>}, files |-> [q \in F |-> PriorContent(q)]] :
                F \in {G \in SUBSET PriorFilePaths : \A q \in G : Parent(q) \in D}} :
           D \in PriorDirSets}

InitStructure ==
    /\ \E fs \in PriorStates : dirs = fs.dirs /\ files = fs.files
    /\ layersArg \in SUBSET Layers
    /\ hashOrder \in HashOrders
    /\ cfgs = InitialHeap
    /\ models = <<>>
    /\ pc = "call"
    /\ idx = 0
    /\ err = ""
    /\ log = <<>>
    /\ call = None
    /\ run = 0
    /\ prev = None

\* One more call with the same layers; prev keeps what the call started from.
CallCreateProjectStructure ==
    /\ pc = "call"
    /\ run < MaxRuns
    /\ LET r == create_project_structure(dirs, files, layersArg, hashOrder)
       IN  /\ dirs' = r.dirs
           /\ files' = r.files
           /\ err' = r.err
           /\ pc' = IF r.ok THEN "call" ELSE "failed"
    /\ prev' = Some(Snapshot)
    /\ run' = run + 1
    /\ UNCHANGED <<cfgs, models, hashOrder, layersArg, idx, log, call>>

NextStructure == CallCreateProjectStructure

SpecStructure == InitStructure /\ [][NextStructure]_vars

(***************************************************************************)
(* Vocabulary of the properties.                                           *)
(***************************************************************************)
ModelsDir == ProjectDir \o <<"models">>

\* The directories directly under models/.
LayerDirsOnDisk == {d \in dirs : Len(d) = Len(ModelsDir) + 1 /\ Parent(d) = ModelsDir}

\* The files directly under some models/<layer>/.
ModelFilesOnDisk ==
    {q \in DOMAIN files : Len(q) = Len(ModelsDir) + 2 /\ Parent(Parent(q)) = ModelsDir}

SqlAbsentOrEmpty(m) == m.sql \in {None, Some("")}
SqlFileMissing(m) == ~SqlAbsentOrEmpty(m) /\ m.sql[1] \notin DOMAIN SqlSources
Offending(i) == SqlAbsentOrEmpty(models[i]) \/ SqlFileMissing(models[i])
SomeOffending == \E i \in DOMAIN models : Offending(i)

\* The first offending model in list order (Len(models) + 1 when none is).
FirstOffending ==
    IF SomeOffending
    THEN CHOOSE i \in DOMAIN models : Offending(i) /\ \A j \in 1..(i - 1) : ~Offending(j)
    ELSE Len(models) + 1

\* The path model i is written to, and the models among the first n that
\* share it.
PathOf(i) == ModelPath(models[i].name, models[i].layer)
LastWriter(q, n) == CHOOSE i \in 1..n : PathOf(i) = q /\ \A j \in (i + 1)..n : PathOf(j) # q

\* What the file of model i holds once written: its header, from its config
\* dict as the dict then is, and its SQL.
Rendering(i) == ModelContent(cfgs, SqlSources[models[i].sql[1]], models[i].config)

\* A name with every character outside [A-Za-z0-9_] turned into "_".
Sanitized(name) == [i \in DOMAIN name |-> IF name[i] \in NameChars THEN name[i] ELSE "_"]

\* The (layer, sanitized name) pairs of the models.
Pairs == {<<models[i].layer, Sanitized(models[i].name)>> : i \in DOMAIN models}

\* The model-write calls of the current run, in the order they were made.
Writes == SelectSeq(log, LAMBDA e : e.op = "write")
Checks == SelectSeq(log, LAMBDA e : e.op = "check")

Stopped == pc \in {"done", "failed"}

(***************************************************************************)
(* C1: when model i is the first whose sql reference is absent or empty or *)
(* whose SQL file does not exist, the run aborts at i: no model file is    *)
(* written for model i or any later model, and the files written for the   *)
(* models before i stay on disk with their content (no rollback).          *)
(***************************************************************************)
C1_AbortKeepsEarlierFiles ==
    (run = 1 /\ SomeOffending) =>
        LET i == FirstOffending
        IN  /\ idx <= i
            /\ \A n \in DOMAIN Writes : Writes[n].i < i
            /\ pc = "failed" =>
                /\ idx = i
                /\ [n \in DOMAIN Writes |-> Writes[n].i] = [n \in 1..(i - 1) |-> n]
                /\ ModelFilesOnDisk = {PathOf(j) : j \in 1..(i - 1)}
                /\ \A q \in ModelFilesOnDisk : files[q] = Rendering(LastWriter(q, i - 1))
            /\ pc # "done"

C1_Witness ==
    /\ pc = "failed"
    /\ FirstOffending = 2
    /\ PathOf(1) \in DOMAIN files

(***************************************************************************)
(* C2: a run ends successfully exactly when every model has a non-empty    *)
(* sql reference to an existing file; otherwise it fails with the error of *)
(* the first offending model: ValueError for an absent or empty reference, *)
(* FileNotFoundError for a reference to a file that does not exist.        *)
(***************************************************************************)
C2_SuccessIffAllSourcesExist ==
    /\ pc = "done" => ~SomeOffending
    /\ pc = "failed" =>
        /\ SomeOffending
        /\ err = IF SqlAbsentOrEmpty(models[FirstOffending])
                 THEN "ValueError" ELSE "FileNotFoundError"
    /\ pc = "loop" => idx \in DOMAIN models

C2_Witness ==
    /\ pc = "failed"
    /\ err = "FileNotFoundError"
    /\ Len(models) = 2
    /\ FirstOffending = 1
    /\ SqlAbsentOrEmpty(models[2])

(***************************************************************************)
(* C3: from an empty project root, once structure creation has run, the    *)
(* directories directly under models/ are exactly the distinct layer       *)
(* values of the models, whatever their order and multiplicity.            *)
(***************************************************************************)
C3_LayerDirsAreConfigLayers ==
    run >= 1 => LayerDirsOnDisk = {LayerDir(models[i].layer) : i \in DOMAIN models}

C3_Witness ==
    /\ run = 1
    /\ Len(models) = 2
    /\ models[1].layer = models[2].layer
    /\ Cardinality(LayerDirsOnDisk) = 1

(***************************************************************************)
(* C8: in every run structure creation happens exactly once and before any *)
(* SQL source is checked or any model file is written; the model files are *)
(* then written one per model in list order, each into a models/<layer>/   *)
(* directory that exists, a successful run making as many write calls as   *)
(* there are models; a run that aborts on its first model has still        *)
(* created the directory tree, the manifest and the connection profile.    *)
(***************************************************************************)
C8_StructureOnceThenModelsInOrder ==
    /\ run >= 1 =>
        /\ log # <<>>
        /\ log[1].op = "structure"
        /\ \A n \in 2..Len(log) : log[n].op # "structure"
    /\ [n \in DOMAIN Writes |-> Writes[n].i] = [n \in 1..Len(Writes) |-> n]
    /\ \A n \in DOMAIN Writes :
        /\ Writes[n].path = PathOf(n)
        /\ Parent(Writes[n].path) = LayerDir(models[n].layer)
        /\ Parent(Writes[n].path) \in dirs
        /\ Writes[n].path \in DOMAIN files
    /\ pc = "done" => Len(Writes) = Len(models)
    /\ (pc = "failed" /\ idx = 1) =>
        /\ \A n \in DOMAIN base_dirs : ProjectDir \o <<base_dirs[n]>> \in dirs
        /\ \A i \in DOMAIN models : LayerDir(models[i].layer) \in dirs
        /\ {ManifestPath, ProfilesPath} \subseteq DOMAIN files
        /\ Writes = <<>>

C8_Witness ==
    /\ pc = "done"
    /\ Len(models) = 2
    /\ Len(Writes) = 2
    /\ models[1].layer # models[2].layer

(***************************************************************************)
(* C9: sanitized names are not checked for uniqueness and the last writer  *)
(* wins: after a successful run every models/<layer>/<sanitized name>.sql  *)
(* holds what was rendered from the last model of the list with that layer *)
(* and sanitized name, no error was raised, and there are as many model    *)
(* files as distinct (layer, sanitized name) pairs, possibly fewer than    *)
(* models.                                                                 *)
(***************************************************************************)
C9_LastWriterWins ==
    pc = "done" =>
        /\ err = ""
        /\ ModelFilesOnDisk = {PathOf(i) : i \in DOMAIN models}
        /\ Cardinality(ModelFilesOnDisk) = Cardinality(Pairs)
        /\ \A q \in ModelFilesOnDisk : files[q] = Rendering(LastWriter(q, Len(models)))

C9_Witness ==
    /\ pc = "done"
    /\ Len(models) = 2
    /\ models[1].name = <<"a", " ", "b">>
    /\ models[2].name = <<"a", "-", "b">>
    /\ Cardinality(ModelFilesOnDisk) = 1
    /\ Rendering(1) # Rendering(2)
    /\ files[PathOf(1)] = Rendering(2)

(***************************************************************************)
(* C10: create_model_from_sql changes a configuration dict only by         *)
(* appending schema = layer to a non-empty dict without schema (an empty   *)
(* or absent one is left alone), so that a second run on the same          *)
(* ProjectConfig object, after a successful first one and with the same    *)
(* SQL sources, succeeds and leaves every generated file as the first run  *)
(* left it.                                                                *)
(***************************************************************************)
Written(i) == run >= 2 \/ i < idx

C10_RunIsRepeatable ==
    /\ \A id \in CfgIds :
        \/ cfgs[id] = InitialHeap[id]
        \/ /\ InitialHeap[id] # <<>>
           /\ "schema" \notin Keys(InitialHeap[id])
           /\ \E i \in DOMAIN models :
                /\ Written(i)
                /\ models[i].config = Some(id)
                /\ cfgs[id] = Append(InitialHeap[id],
                                     [k |-> "schema", v |-> StrVal(models[i].layer)])
    /\ \A i \in DOMAIN models :
        (Written(i) /\ models[i].config # None /\ InitialHeap[models[i].config[1]] # <<>>)
            => "schema" \in Keys(cfgs[models[i].config[1]])
    /\ run >= 2 => pc # "failed"
    /\ (run >= 2 /\ pc = "done") => (dirs = prev[1].dirs /\ files = prev[1].files)

C10_Witness ==
    /\ run = 2
    /\ pc = "done"
    /\ Len(models) = 2
    /\ models[1].config = Some("view")
    /\ models[2].config = Some("view")
    /\ models[1].layer # models[2].layer
    /\ cfgs["view"] # InitialHeap["view"]

(***************************************************************************)
(* Vocabulary of the properties of one create_model_from_sql call.         *)
(***************************************************************************)
Returned == call # None /\ call[1].ok

\* The file the call wrote.
Written_file == files[call[1].path]

\* Whether a file starts with a configuration header, and the header's
\* entry lines: those between the opening and the closing line.
HasHeader(c) == Len(c) >= 7 /\ c[1] = "{{ config(" /\ c[Len(c) - 2] = ") }}"
HeaderEntries(c) == IF HasHeader(c) THEN SubSeq(c, 3, Len(c) - 4) ELSE <<>>

\* The line of the entry key=value, the last of a header or not.
EntryLine(k, v, last) == "    " \o k \o "=" \o FormatValue(v) \o (IF last THEN "" ELSE ",")

\* The lines an entry for schema can be, whatever its value.
SchemaLines ==
    {EntryLine("schema", v, last) :
        v \in DirectValues \cup {StrVal(l) : l \in DirectLayers}, last \in BOOLEAN}

\* The header of c has one schema entry, and its value is v.
HeaderSchemaIs(c, v) ==
    /\ HasHeader(c)
    /\ \E n \in DOMAIN HeaderEntries(c) :
        /\ HeaderEntries(c)[n] \in {EntryLine("schema", v, last) : last \in BOOLEAN}
        /\ \A o \in DOMAIN HeaderEntries(c) : HeaderEntries(c)[o] \in SchemaLines => o = n

SuppliedValue(m, k) == (CHOOSE e \in {m[i] : i \in DOMAIN m} : e.k = k).v

(***************************************************************************)
(* C4, as stated: for every call with a supplied configuration mapping     *)
(* without a schema key, empty or not, the written file has a header whose *)
(* schema value is the layer; with a schema key, the header carries the    *)
(* supplied value.                                                         *)
(***************************************************************************)
C4_SchemaDefaultsForAnyMapping ==
    (Returned /\ call[1].config # None) =>
        LET m == call[1].config[1]
        IN  IF "schema" \in Keys(m)
            THEN HeaderSchemaIs(Written_file, SuppliedValue(m, "schema"))
            ELSE HeaderSchemaIs(Written_file, StrVal(call[1].layer))

(***************************************************************************)
(* C4, amended: for every call with a supplied non-empty configuration     *)
(* mapping without a schema key the written file has a header whose        *)
(* schema value is the layer; with a schema key, the header carries the    *)
(* supplied value; for an empty mapping the file has no header.            *)
(***************************************************************************)
C4_SchemaDefaultsForNonEmptyMapping ==
    (Returned /\ call[1].config # None) =>
        LET m == call[1].config[1]
        IN  IF "schema" \in Keys(m)
            THEN HeaderSchemaIs(Written_file, SuppliedValue(m, "schema"))
            ELSE IF m # <<>>
                 THEN HeaderSchemaIs(Written_file, StrVal(call[1].layer))
                 ELSE ~HasHeader(Written_file) /\ Len(Written_file) = 1

C4_Witness ==
    /\ Returned
    /\ call[1].config # None
    /\ call[1].config[1] # <<>>
    /\ "schema" \notin Keys(call[1].config[1])
    /\ call[1].layer = "mart"
    /\ HeaderSchemaIs(Written_file, StrVal("mart"))

(***************************************************************************)
(* C5: the header has exactly one key=value entry per key of the mapping,  *)
(* in the mapping's iteration order; a schema defaulted from the layer is  *)
(* the last entry, after all supplied keys (a mapping without keys gets no *)
(* entry, and no header).                                                  *)
(***************************************************************************)
C5_HeaderKeepsKeyOrder ==
    (Returned /\ call[1].config # None) =>
        LET m == call[1].config[1]
            defaulted == m # <<>> /\ "schema" \notin Keys(m)
            n == Len(m) + (IF defaulted THEN 1 ELSE 0)
            entries == HeaderEntries(Written_file)
        IN  /\ HasHeader(Written_file) <=> m # <<>>
            /\ Len(entries) = n
            /\ \A i \in DOMAIN m : entries[i] = EntryLine(m[i].k, m[i].v, i = n)
            /\ defaulted => entries[n] = EntryLine("schema", StrVal(call[1].layer), TRUE)

C5_Witness ==
    /\ Returned
    /\ call[1].config # None
    /\ Len(call[1].config[1]) = 2
    /\ call[1].config[1][1].k = "tags"
    /\ call[1].config[1][2].k = "materialized"
    /\ Len(HeaderEntries(Written_file)) = 3

(***************************************************************************)
(* C6: for a model name with a character outside [A-Za-z0-9_] the file is  *)
(* written at <root>/models/<layer>/<s>.sql, s being the name with each    *)
(* such character replaced by an underscore: as long as the name, made of  *)
(* allowed characters only, not empty, the allowed characters in place.    *)
(***************************************************************************)
C6_FileNameIsSanitized ==
    (Returned /\ \E i \in DOMAIN call[1].name : call[1].name[i] \notin NameChars) =>
        LET name == call[1].name
            written == ModelFilesOnDisk
        IN  \E q \in written :
                /\ written = {q}
                /\ Parent(q) = ProjectDir \o <<"models", call[1].layer>>
                /\ Len(q[Len(q)]) = Len(name) + Len(".sql")
                /\ Len(name) > 0
                /\ \E s \in [DOMAIN name -> {name[i] : i \in DOMAIN name} \cup {"_"}] :
                    /\ q[Len(q)] = Join(s) \o ".sql"
                    /\ \A i \in DOMAIN s : s[i] \in NameChars
                    /\ \A i \in DOMAIN s : name[i] \in NameChars => s[i] = name[i]

C6_Witness ==
    /\ Returned
    /\ call[1].name = <<"a", "/">>
    /\ call[1].layer = "staging"
    /\ LayerDir("staging") \o <<"a_.sql">> \in DOMAIN files

====
